---- MODULE Spec2Model ----
(***************************************************************************)
(* Model of the conversational survey engine (src/app/core/survey_engine.py *)
(* with the fallback of LLMAgent.survey_step, src/app/core/agent.py).       *)
(*                                                                         *)
(* Python values are tagged records: PyStr(s) is a str whose characters are *)
(* the elements of the sequence s, PyList(l) a list of str, PyNone is None. *)
(* Records of different tags are different values, as in Python.           *)
(***************************************************************************)
EXTENDS Integers, Sequences, FiniteSets, TLC

VARIABLES
    survey_id,           \* the survey the session runs (argument of every call)
    db,                  \* the persisted session state (db.present = FALSE: none yet)
    result,              \* what the last call that returned handed back
    asked_log,           \* ids in the order they were given status "asked"
    stalls,              \* number of turns so far that did not advance the session
    arg,                 \* arguments of a helper called on its own (NoCall: none)
    ret                  \* what that call returned (NoCall: not called yet)

vars == <<survey_id, db, result, asked_log, stalls, arg, ret>>

----------------------------------------------------------------------------
(* Bounds *)

\* turns that keep the session on the same question (clarification, off-topic)
MaxStalls == 1

\* comma-separated pieces of a text, and elements of a list, handed to
\* _normalize_answer when it is called on its own
MaxTokens == 2
\* how many times in a row _mark_conditionally_skipped is applied
MaxMarks == 2

----------------------------------------------------------------------------
(* Python values *)

PyStr(s) == [t |-> "str", s |-> s]
PyList(l) == [t |-> "list", l |-> l]
PyNone == [t |-> "none"]

None == "None"

\* str.strip() removes these
Whitespace == {" "}

Yes == <<"Y", "e", "s">>
No == <<"N", "o">>
SKIP == <<"S", "K", "I", "P">>
Agree == <<"A", "g", "r", "e", "e">>
Manager == <<"M", "a", "n", "a", "g", "e", "r">>
Colleague == <<"C", "o", "l", "l", "e", "a", "g", "u", "e">>
PreferNotToSay == <<"P", "r", "e", "f", "e", "r", " ", "n", "o", "t", " ", "t", "o", " ", "s", "a", "y">>
\* "Manager, Colleague"
ManagerCommaColleague == Manager \o <<",", " ">> \o Colleague

RECURSIVE SplitFrom(_, _, _)
\* str.split(","): the pieces of s between commas, scanning from position i
SplitFrom(s, i, piece) ==
    IF i > Len(s) THEN <<piece>>
    ELSE IF s[i] = "," THEN <<piece>> \o SplitFrom(s, i + 1, <<>>)
    ELSE SplitFrom(s, i + 1, Append(piece, s[i]))

RECURSIVE lstrip(_)
lstrip(s) == IF s # <<>> /\ Head(s) \in Whitespace THEN lstrip(Tail(s)) ELSE s

RECURSIVE rstrip(_)
rstrip(s) ==
    IF s # <<>> /\ s[Len(s)] \in Whitespace THEN rstrip(SubSeq(s, 1, Len(s) - 1)) ELSE s

\* faulty variant: only leading whitespace is removed
strip_leading(s) == lstrip(s)

strip(s) == rstrip(lstrip(s))

\* [v.strip() for v in parsed_value.split(",") if v.strip()]
SplitTokens(s) ==
    LET pieces == SplitFrom(s, 1, <<>>)
        stripped == [i \in 1..Len(pieces) |-> strip(pieces[i])]
    IN SelectSeq(stripped, LAMBDA v : v # <<>>)

SeqToSet(l) == {l[i] : i \in 1..Len(l)}

----------------------------------------------------------------------------
(* Survey definitions *)

NoCondition == [present |-> FALSE, var |-> "", equals |-> <<>>]
Condition(var, equals) == [present |-> TRUE, var |-> var, equals |-> equals]

\* save_as = "" stands for a question without the key "save_as"
Question(id, type, options, condition, save_as) ==
    [id |-> id, type |-> type, options |-> options, condition |-> condition,
     save_as |-> save_as]

\* CULTURE_DISCRIMINATION is the definition of surveys.py cut down to its
\* questions Q1, Q2, Q5 and Q6 with shortened option lists; it has no
\* "moderate_answers" key.  The two other definitions are further inputs of
\* the engine: TEAM_FEEDBACK starts with an unconditioned multi_choice
\* question, has a question without save_as, ends with a free_text question
\* and asks for moderation; GATED has no question that is eligible at the
\* start; LATE_START has a first question that is not eligible at the start.
SURVEYS ==
    [CULTURE_DISCRIMINATION |->
        [questions |-> <<
            Question("Q1", "single_choice", <<Yes, No, PreferNotToSay>>, NoCondition, "q1"),
            Question("Q2", "multi_choice", <<Manager, Colleague>>, Condition("q1", Yes), "q2"),
            Question("Q5", "likert_5", <<Agree>>, NoCondition, "q5"),
            Question("Q6", "single_choice", <<Yes, No>>, NoCondition, "q6") >>,
         moderate_answers |-> FALSE],
     TEAM_FEEDBACK |->
        [questions |-> <<
            Question("T1", "multi_choice", <<Manager, Colleague>>, NoCondition, ""),
            Question("T2", "single_choice", <<Yes, No>>, Condition("T1", Manager), "t2"),
            Question("T3", "free_text", <<>>, NoCondition, "t3") >>,
         moderate_answers |-> TRUE],
     GATED |->
        [questions |-> <<
            Question("G1", "single_choice", <<Yes, No>>, Condition("consent", Yes), "g1") >>,
         moderate_answers |-> FALSE],
     LATE_START |->
        [questions |-> <<
            Question("L1", "single_choice", <<Yes, No>>, Condition("consent", Yes), "l1"),
            Question("L2", "likert_5", <<Agree>>, NoCondition, "l2") >>,
         moderate_answers |-> FALSE]]

SurveyIds == DOMAIN SURVEYS

\* [q["id"] for q in questions]
QuestionIds(survey_definition) ==
    [i \in 1..Len(survey_definition.questions) |-> survey_definition.questions[i].id]

\* question_ids.index(id), counted from 1; 0 when id is not in the list
IndexOf(survey_definition, id) ==
    LET hits == {i \in 1..Len(survey_definition.questions) :
                    survey_definition.questions[i].id = id}
    IN IF hits = {} THEN 0 ELSE CHOOSE i \in hits : \A j \in hits : i <= j

\* {q["id"]: q for q in questions}; the ids of a definition are distinct
_get_question_map(survey_definition) ==
    LET qs == SeqToSet(survey_definition.questions)
    IN [id \in {q.id : q \in qs} |-> CHOOSE q \in qs : q.id = id]

\* question.get("save_as", question["id"])
SaveAs(question) == IF question.save_as = "" THEN question.id ELSE question.save_as

----------------------------------------------------------------------------
(* Messages: m names the text, q the question the text is a phrasing of *)

NoText == [m |-> "none", q |-> None]
EndMessage == [m |-> "end_message", q |-> None]
OffTopicMessage == [m |-> "off_topic_message", q |-> None]
QuestionText(id) == [m |-> "text", q |-> id]
_render_intro_and_question(id) == [m |-> "intro_and_text", q |-> id]
\* the model's phrasing of the question it proposes as the next one
ModelText == [m |-> "assistant_question_text", q |-> None]
\* the empty str
EmptyText == [m |-> "", q |-> None]

----------------------------------------------------------------------------
(* Session state *)

EmptyDict == [k \in {} |-> PyNone]

NoState ==
    [present |-> FALSE, answers |-> EmptyDict, question_status |-> EmptyDict,
     current_question_id |-> None, history |-> <<>>, terminated |-> FALSE]

_initial_state(survey_definition) ==
    [present |-> TRUE,
     answers |-> EmptyDict,
     question_status |-> [id \in SeqToSet(QuestionIds(survey_definition)) |-> "unasked"],
     current_question_id |-> None,
     history |-> <<>>,
     terminated |-> FALSE]

_append_history(state, role, content, question_id) ==
    [state EXCEPT !.history =
        Append(@, [role |-> role, content |-> content, question_id |-> question_id])]

\* faulty variant: a stored list is compared with the value, not searched
_is_condition_met_by_equality(question, answers) ==
    IF ~question.condition.present THEN TRUE
    ELSE IF question.condition.var \notin DOMAIN answers THEN FALSE
    ELSE answers[question.condition.var] = PyStr(question.condition.equals)

\* faulty variant: every condition counts as met
_is_condition_met_always(question, answers) == TRUE

_is_condition_met(question, answers) ==
    IF ~question.condition.present THEN TRUE
    ELSE IF question.condition.var \notin DOMAIN answers THEN FALSE
    ELSE LET stored == answers[question.condition.var]
         IN IF stored.t = "list"
            THEN question.condition.equals \in SeqToSet(stored.l)
            ELSE stored = PyStr(question.condition.equals)

\* The loop reads answers, which it does not change, and writes only the
\* status of the question it visits: its result does not depend on the order.
\* faulty variant: asked questions with an unmet condition are skipped too
_mark_conditionally_skipped_also_asked(state, survey_definition) ==
    LET question_map == _get_question_map(survey_definition)
    IN [state EXCEPT !.question_status =
          [id \in DOMAIN @ |->
             IF @[id] \notin {"unasked", "asked"} THEN @[id]
             ELSE IF id \notin DOMAIN question_map THEN @[id]
             ELSE IF ~_is_condition_met(question_map[id], state.answers) THEN "skipped"
             ELSE @[id]]]

_mark_conditionally_skipped(state, survey_definition) ==
    LET question_map == _get_question_map(survey_definition)
    IN [state EXCEPT !.question_status =
          [id \in DOMAIN @ |->
             IF @[id] # "unasked" THEN @[id]
             ELSE IF id \notin DOMAIN question_map THEN @[id]
             ELSE IF ~_is_condition_met(question_map[id], state.answers) THEN "skipped"
             ELSE @[id]]]

\* faulty variant: the question at position i is taken as it comes
NextScan_takes_next(state, survey_definition, i) ==
    IF i > Len(survey_definition.questions) THEN [state |-> state, id |-> None]
    ELSE [state |-> state, id |-> survey_definition.questions[i].id]

RECURSIVE NextScan(_, _, _)
\* the for loop of _deterministic_next_question from position i on
NextScan(state, survey_definition, i) ==
    IF i > Len(survey_definition.questions) THEN [state |-> state, id |-> None]
    ELSE LET q == survey_definition.questions[i]
         IN IF state.question_status[q.id] \in {"answered", "skipped"}
            THEN NextScan(state, survey_definition, i + 1)
            ELSE IF ~_is_condition_met(q, state.answers)
            THEN NextScan([state EXCEPT !.question_status[q.id] = "skipped"],
                          survey_definition, i + 1)
            ELSE [state |-> state, id |-> q.id]

\* faulty variant: the scan starts at the first question whatever the current one is
_deterministic_next_question_from_start(state, survey_definition) ==
    NextScan(_mark_conditionally_skipped(state, survey_definition), survey_definition, 1)

\* returns the state it leaves behind and the id (or None)
_deterministic_next_question(state, survey_definition) ==
    LET current_idx == IndexOf(survey_definition, state.current_question_id)
    IN NextScan(_mark_conditionally_skipped(state, survey_definition),
                survey_definition, current_idx + 1)

RECURSIVE EligibleScan(_, _, _, _)
\* the for loop of _eligible_questions from position i on
EligibleScan(state, survey_definition, i, eligible) ==
    IF i > Len(survey_definition.questions) THEN [state |-> state, ids |-> eligible]
    ELSE LET q == survey_definition.questions[i]
         IN IF state.question_status[q.id] \in {"answered", "skipped"}
            THEN EligibleScan(state, survey_definition, i + 1, eligible)
            ELSE IF ~_is_condition_met(q, state.answers)
            THEN EligibleScan([state EXCEPT !.question_status[q.id] = "skipped"],
                              survey_definition, i + 1, eligible)
            ELSE EligibleScan(state, survey_definition, i + 1, Append(eligible, q.id))

\* faulty variant: every question is listed, whatever its status and condition
_eligible_questions_unfiltered(state, survey_definition) ==
    [state |-> state, ids |-> QuestionIds(survey_definition)]

\* returns the state it leaves behind and the ids of the eligible questions
_eligible_questions(state, survey_definition) ==
    EligibleScan(_mark_conditionally_skipped(state, survey_definition),
                 survey_definition, 1, <<>>)

\* faulty variant: a choice question takes any text, one of its options or not
_normalize_answer_any_text(question, parsed_value) ==
    LET Triple(v, ok) == [value |-> v, valid |-> ok, needs_clarification |-> ~ok]
    IN IF parsed_value.t = "str" THEN Triple(parsed_value, TRUE)
       ELSE Triple(PyStr(<<>>), FALSE)

\* (normalized_value, valid, needs_clarification)
_normalize_answer(question, parsed_value) ==
    LET options == SeqToSet(question.options)
        Triple(v, ok) == [value |-> v, valid |-> ok, needs_clarification |-> ~ok]
    IN IF parsed_value = PyStr(SKIP) THEN Triple(PyStr(SKIP), TRUE)
       ELSE IF question.type = "free_text"
       THEN IF parsed_value.t = "str" THEN Triple(parsed_value, TRUE)
            ELSE Triple(PyStr(<<>>), FALSE)
       ELSE IF question.type = "multi_choice"
       THEN LET as_list == IF parsed_value.t = "str"
                           THEN PyList(SplitTokens(parsed_value.s))
                           ELSE parsed_value
            IN IF as_list.t = "list" /\ SeqToSet(as_list.l) \subseteq options
               THEN Triple(as_list, TRUE)
               ELSE Triple(PyList(<<>>), FALSE)
       ELSE IF parsed_value.t = "str" /\ parsed_value.s \in options
       THEN Triple(parsed_value, TRUE)
       ELSE Triple(PyStr(<<>>), FALSE)

\* faulty variant: the answer is stored and the status left as it is
_store_answer_keeps_status(state, question, normalized_value) ==
    LET save_as == SaveAs(question)
    IN [state EXCEPT
          !.answers = [k \in DOMAIN @ \cup {save_as} |->
                          IF k = save_as THEN normalized_value ELSE @[k]]]

\* faulty variant: the question counts as answered whatever was stored
_store_answer_as_answered(state, question, normalized_value) ==
    LET save_as == SaveAs(question)
    IN [state EXCEPT
          !.answers = [k \in DOMAIN @ \cup {save_as} |->
                          IF k = save_as THEN normalized_value ELSE @[k]],
          !.question_status[question.id] = "answered"]

_store_answer(state, question, normalized_value) ==
    LET save_as == SaveAs(question)
        status == IF normalized_value = PyStr(SKIP) THEN "skipped" ELSE "answered"
    IN [state EXCEPT
          !.answers = [k \in DOMAIN @ \cup {save_as} |->
                          IF k = save_as THEN normalized_value ELSE @[k]],
          !.question_status[question.id] = status]

----------------------------------------------------------------------------
(* The Interpretation Port: LLMAgent.survey_step *)

ModelClarification == [m |-> "clarification_question", q |-> None]
GenericClarification == [m |-> "could_you_clarify", q |-> None]

\* A value json.loads can return, reduced to what next_step reads of it.
\*   kind           "dict" or "not_dict" (a JSON array, string, number, null)
\*   parsed_answer  "dict", "missing" (no such key) or "not_dict"
\*   value          parsed_answer["value"], PyNone when there is none
\*   need_clarification            whether the field is truthy
\*   clarification_question, assistant_question_text
\*                  the text, NoText when the field is missing, None or ""
Response(kind, parsed_answer, value, need_clarification, clarification_question, next_question_id, assistant_question_text) ==
    [kind |-> kind, parsed_answer |-> parsed_answer, value |-> value,
     need_clarification |-> need_clarification,
     clarification_question |-> clarification_question,
     next_question_id |-> next_question_id,
     assistant_question_text |-> assistant_question_text]

\* no call of survey_step was made
NoResponse == Response("none", "missing", PyNone, FALSE, NoText, None, NoText)

NotADict == Response("not_dict", "missing", PyNone, FALSE, NoText, None, NoText)

\* values the model puts in parsed_answer.value
PortValues ==
    {PyStr(Yes), PyStr(No), PyStr(SKIP), PyStr(Agree),
     PyStr(ManagerCommaColleague), PyList(<<Colleague, Manager>>), PyNone}

\* ids the model proposes: none, any id of the definition, an id of no question
UnknownId == "QX"
Proposals(survey_definition) ==
    {None, UnknownId} \cup SeqToSet(QuestionIds(survey_definition))

\* The model leaves its two texts out or supplies them.  A turn reads at most
\* one of the two (the clarification text when it clarifies, the phrasing when
\* it advances), so the mixed cases add no behaviour.
ModelTexts == {<<NoText, NoText>>, <<ModelClarification, ModelText>>}

JsonValues(survey_definition) ==
    {NotADict}
    \cup {Response("dict", pa, PyNone, nc, txt[1], None, txt[2]) :
            pa \in {"missing", "not_dict"}, nc \in BOOLEAN, txt \in ModelTexts}
    \cup {Response("dict", "dict", v, nc, txt[1], nq, txt[2]) :
            v \in PortValues, nc \in BOOLEAN, txt \in ModelTexts,
            nq \in Proposals(survey_definition)}

\* what the completion call and json.loads do: the call raises, the content
\* does not parse, or it parses to a JSON value
LLMOutputs(survey_definition) ==
    {[outcome |-> "create_raises", content |-> NotADict],
     [outcome |-> "unparseable", content |-> NotADict]}
    \cup {[outcome |-> "json", content |-> j] : j \in JsonValues(survey_definition)}

\* the except branch of survey_step
Fallback(state, survey_definition) ==
    LET current_question_text ==
            IF state.current_question_id \in DOMAIN _get_question_map(survey_definition)
            THEN QuestionText(state.current_question_id) ELSE NoText
    IN Response("dict", "dict", PyStr(SKIP), TRUE,
                IF current_question_text # NoText THEN current_question_text
                ELSE GenericClarification,
                state.current_question_id,
                current_question_text)

\* the try block of survey_step, for a completion call that returned
survey_step(state, survey_definition, llm) ==
    IF llm.outcome = "unparseable" THEN Fallback(state, survey_definition)
    ELSE llm.content

----------------------------------------------------------------------------
(* The Survey State Machine *)

\* What a call hands back, and what it went through on the way:
\*   returned  FALSE when the call raised instead of returning
\*   message   the "message" of the returned dict
\*   via       the return statement taken
\*   flagged   the response's need_clarification was truthy
\*   valid     the verdict of _normalize_answer (FALSE when not reached)
Result(returned, message, via, flagged, valid) ==
    [returned |-> returned, message |-> message, via |-> via,
     flagged |-> flagged, valid |-> valid]

\* a return before the port is consulted
Early(message, via) == Result(TRUE, message, via, FALSE, FALSE)

NoResult == Early(NoText, "none")

\* What a call leaves behind: the persisted state, the locals response,
\* allowed_questions and deterministic_next, the result, the ids it marked
\* "asked", and the number of calls it made to agent.review_answer.
Outcome(state, resp, allowed, det, res, asked, moderation_calls) ==
    [db |-> state, response |-> resp, allowed_questions |-> allowed,
     deterministic_next |-> det, result |-> res, asked |-> asked,
     moderation_calls |-> moderation_calls]

\* faulty variant: the session begins on the first question of the list
begin_session_on_first_listed(survey_definition) ==
    LET next_question_id == survey_definition.questions[1].id
    IN Outcome(_append_history(
                   [_initial_state(survey_definition) EXCEPT
                       !.current_question_id = next_question_id,
                       !.question_status[next_question_id] = "asked"],
                   "assistant", _render_intro_and_question(next_question_id),
                   next_question_id),
               NoResponse, <<>>, None,
               Early(_render_intro_and_question(next_question_id), "begin"),
               <<next_question_id>>, 0)

begin_session(survey_definition) ==
    LET state == _initial_state(survey_definition)
        d == _deterministic_next_question(state, survey_definition)
        next_question_id == d.id
    IN IF next_question_id = None
       THEN Outcome(_append_history([d.state EXCEPT !.terminated = TRUE],
                                    "assistant", EndMessage, None),
                    NoResponse, <<>>, None,
                    Early(EndMessage, "begin_terminated"), <<>>, 0)
       ELSE Outcome(_append_history(
                        [d.state EXCEPT !.current_question_id = next_question_id,
                                        !.question_status[next_question_id] = "asked"],
                        "assistant", _render_intro_and_question(next_question_id),
                        next_question_id),
                    NoResponse, <<>>, None,
                    Early(_render_intro_and_question(next_question_id), "begin"),
                    <<next_question_id>>, 0)

\* self.agent.review_answer is consulted only in the last case
ModerationCalls(survey_definition, message) ==
    IF message = NoText THEN 0
    ELSE IF ~survey_definition.moderate_answers THEN 0
    ELSE 1

\* faulty variant: the verdict of the moderation is not looked at
_moderate_answer_ignores_verdict(survey_definition, message, on_topic) == TRUE

\* on_topic is the answer of agent.review_answer
_moderate_answer(survey_definition, message, on_topic) ==
    IF message = NoText THEN TRUE
    ELSE IF ~survey_definition.moderate_answers THEN TRUE
    ELSE on_topic

\* faulty variant: the question is given up when it needs a clarification
_handle_clarification_gives_up(state, question_id, clarification_text) ==
    _append_history([state EXCEPT !.question_status[question_id] = "skipped"],
                    "assistant", clarification_text, question_id)

_handle_clarification(state, question_id, clarification_text) ==
    _append_history(state, "assistant", clarification_text, question_id)

_off_topic_response(state) ==
    _append_history(state, "assistant", OffTopicMessage, state.current_question_id)
\* A call that raises never reaches _save_state: the persisted state stays
\* what it was when the call loaded it.
Raised(loaded, resp, moderation_calls) ==
    Outcome(loaded, resp, <<>>, None,
            Result(FALSE, NoText, "exception", resp.need_clarification, FALSE),
            <<>>, moderation_calls)

\* faulty variant: a proposal that comes without a phrasing is not followed
Advance_needs_phrasing(state, survey_definition, current_question, resp, normalized_value, valid, mc) ==
    LET stored == _store_answer(state, current_question, normalized_value)
        e == _eligible_questions(stored, survey_definition)
        allowed == e.ids
        d == _deterministic_next_question(e.state, survey_definition)
        next_question_id ==
            IF resp.next_question_id \notin SeqToSet(allowed) THEN d.id
            ELSE IF resp.assistant_question_text = NoText THEN d.id
            ELSE resp.next_question_id
        Via(message, via) == Result(TRUE, message, via, resp.need_clarification, valid)
    IN IF next_question_id = None
       THEN Outcome(_append_history([d.state EXCEPT !.terminated = TRUE],
                                    "assistant", EndMessage, None),
                    resp, allowed, d.id,
                    Via(EndMessage, "terminated"), <<>>, mc)
       ELSE LET assistant_question_text ==
                    IF resp.assistant_question_text = NoText
                    THEN QuestionText(next_question_id)
                    ELSE resp.assistant_question_text
            IN Outcome(_append_history(
                           [d.state EXCEPT !.current_question_id = next_question_id,
                                           !.question_status[next_question_id] = "asked"],
                           "assistant", assistant_question_text, next_question_id),
                       resp, allowed, d.id,
                       Via(assistant_question_text, "advanced"),
                       <<next_question_id>>, mc)

\* lines 198-222 of next_step: the answer is accepted
Advance(state, survey_definition, current_question, resp, normalized_value, valid, mc) ==
    LET stored == _store_answer(state, current_question, normalized_value)
        e == _eligible_questions(stored, survey_definition)
        allowed == e.ids
        d == _deterministic_next_question(e.state, survey_definition)
        next_question_id ==
            IF resp.next_question_id \notin SeqToSet(allowed) THEN d.id
            ELSE resp.next_question_id
        Via(message, via) == Result(TRUE, message, via, resp.need_clarification, valid)
    IN IF next_question_id = None
       THEN Outcome(_append_history([d.state EXCEPT !.terminated = TRUE],
                                    "assistant", EndMessage, None),
                    resp, allowed, d.id,
                    Via(EndMessage, "terminated"), <<>>, mc)
       ELSE LET assistant_question_text ==
                    IF resp.assistant_question_text = NoText
                    THEN QuestionText(next_question_id)
                    ELSE resp.assistant_question_text
            IN Outcome(_append_history(
                           [d.state EXCEPT !.current_question_id = next_question_id,
                                           !.question_status[next_question_id] = "asked"],
                           "assistant", assistant_question_text, next_question_id),
                       resp, allowed, d.id,
                       Via(assistant_question_text, "advanced"),
                       <<next_question_id>>, mc)

\* lines 181-196 of next_step: the port is consulted and its answer judged
Interpret(loaded, state, survey_definition, current_question, user_message, llm, mc) ==
    LET \* user_message or ""
        said == IF user_message \in {NoText, EmptyText} THEN EmptyText ELSE user_message
        with_user == _append_history(state, "user", said, current_question.id)
    IN IF llm.outcome = "create_raises" THEN Raised(loaded, NoResponse, mc)
       ELSE
       LET resp == survey_step(with_user, survey_definition, llm)
       IN \* line 187: parsed_answer.get on a value that is no dict
          IF resp.kind = "dict" /\ resp.parsed_answer = "not_dict"
          THEN Raised(loaded, resp, mc)
          ELSE
          LET parsed_value == IF resp.kind = "dict" /\ resp.parsed_answer = "dict"
                              THEN resp.value ELSE PyNone
              n == _normalize_answer(current_question, parsed_value)
          IN \* line 189: response.get on a value that is no dict
             IF resp.kind # "dict" THEN Raised(loaded, resp, mc)
             ELSE
             LET flagged == resp.need_clarification \/ n.needs_clarification
                 need_clarification == IF ~n.valid /\ ~flagged THEN TRUE ELSE flagged
             IN IF need_clarification
                THEN LET clarification_text ==
                             IF resp.clarification_question = NoText
                             THEN QuestionText(current_question.id)
                             ELSE resp.clarification_question
                     IN Outcome(_handle_clarification(with_user, current_question.id,
                                                      clarification_text),
                                resp, <<>>, None,
                                Result(TRUE, clarification_text, "clarification",
                                       resp.need_clarification, n.valid),
                                <<>>, mc)
                ELSE Advance(with_user, survey_definition, current_question, resp,
                             n.value, n.valid, mc)

\* lines 168-184 of next_step: a turn of a session that has not terminated
Turn(loaded, survey_definition, user_message, on_topic, llm) ==
    LET state == _mark_conditionally_skipped(loaded, survey_definition)
        mc == ModerationCalls(survey_definition, user_message)
        question_map == _get_question_map(survey_definition)
    IN IF ~_moderate_answer(survey_definition, user_message, on_topic)
       THEN Outcome(_off_topic_response(state), NoResponse, <<>>, None,
                    Early(OffTopicMessage, "off_topic"), <<>>, mc)
       ELSE IF state.current_question_id \notin DOMAIN question_map
       THEN Outcome(_append_history([state EXCEPT !.terminated = TRUE],
                                    "assistant", EndMessage, None),
                    NoResponse, <<>>, None,
                    Early(EndMessage, "no_current"), <<>>, mc)
       ELSE Interpret(loaded, state, survey_definition,
                      question_map[state.current_question_id], user_message, llm, mc)

\* faulty variant: the terminated flag is not looked at
next_step_without_replay(loaded, survey_definition, user_message, on_topic, llm) ==
    IF ~loaded.present THEN begin_session(survey_definition)
    ELSE Turn(loaded, survey_definition, user_message, on_topic, llm)

\* loaded is what _load_state returned, on_topic the moderation verdict, llm
\* what the completion call does in this turn
next_step(loaded, survey_definition, user_message, on_topic, llm) ==
    IF ~loaded.present THEN begin_session(survey_definition)
    ELSE IF loaded.terminated
    THEN Outcome(loaded, NoResponse, <<>>, None, Early(EndMessage, "replay"), <<>>, 0)
    ELSE Turn(loaded, survey_definition, user_message, on_topic, llm)

----------------------------------------------------------------------------
(* Specification *)

\* user_message is None or a str.  The engine reads of it whether it is None
\* (_moderate_answer) and whether it is falsy (user_message or ""); the text
\* goes to the two collaborators, whose answers are inputs of their own.
UserMessages == {NoText, EmptyText}

\* turns that leave the session on its question
Stalling == {"clarification", "off_topic"}

NoCall == [called |-> FALSE]

Init ==
    /\ survey_id \in SurveyIds
    /\ db = NoState
    /\ result = NoResult
    /\ asked_log = <<>>
    /\ stalls = 0
    /\ arg = NoCall
    /\ ret = NoCall

\* A call that raised saved nothing and handed nothing back: it leaves no trace.
Apply(o) ==
    IF ~o.result.returned THEN UNCHANGED vars
    ELSE
    /\ o.result.via \in Stalling => stalls < MaxStalls
    /\ db' = o.db
    /\ result' = o.result
    /\ asked_log' = asked_log \o o.asked
    /\ stalls' = IF o.result.via \in Stalling THEN stalls + 1 ELSE stalls
    /\ UNCHANGED <<survey_id, arg, ret>>

\* the session is created by a call of begin_session
BeginSession ==
    /\ ~db.present
    /\ Apply(begin_session(SURVEYS[survey_id]))

\* the verdicts agent.review_answer can give in this call (none is asked for
\* when the call returns before line 169 or _moderate_answer does not ask)
Verdicts(loaded, survey_definition, user_message) ==
    IF loaded.present /\ ~loaded.terminated
       /\ ModerationCalls(survey_definition, user_message) = 1
    THEN BOOLEAN ELSE {TRUE}

\* whether the call gets to line 184, where it consults the port
ReachesPort(loaded, survey_definition, user_message, on_topic) ==
    /\ loaded.present
    /\ ~loaded.terminated
    /\ _moderate_answer(survey_definition, user_message, on_topic)
    /\ loaded.current_question_id \in DOMAIN _get_question_map(survey_definition)

NotCalled == [outcome |-> "not_called", content |-> NotADict]

\* what the port can do in this call
PortOutputs(loaded, survey_definition, user_message, on_topic) ==
    IF ReachesPort(loaded, survey_definition, user_message, on_topic)
    THEN LLMOutputs(survey_definition) ELSE {NotCalled}

\* a call of next_step with any message, moderation verdict and model output
NextStep ==
    \E user_message \in UserMessages :
    \E on_topic \in Verdicts(db, SURVEYS[survey_id], user_message) :
    \E llm \in PortOutputs(db, SURVEYS[survey_id], user_message, on_topic) :
        Apply(next_step(db, SURVEYS[survey_id], user_message, on_topic, llm))

Next == BeginSession \/ NextStep

Spec == Init /\ [][Next]_vars

\* port outputs for a message the port reads a value from, with no flag, no
\* proposal and no text of its own
PlainOutputs ==
    {[outcome |-> "json",
      content |-> Response("dict", "dict", v, FALSE, NoText, None, NoText)] :
        v \in PortValues}

\* an answer can be given that the engine accepts
CanAccept ==
    \E llm \in PlainOutputs :
        next_step(db, SURVEYS[survey_id], NoText, TRUE, llm).result.via
            \in {"advanced", "terminated"}

\* a turn of an active session in which the answer is accepted
AcceptedTurn ==
    /\ db.present
    /\ ~db.terminated
    /\ result'.via \in {"advanced", "terminated"}

\* The session is begun, and an accepted answer is eventually given to the
\* question that is being asked: weak fairness of BeginSession and of
\* AcceptedTurn, the latter written out with "the session is active" for
\* ENABLED <<AcceptedTurn>>_vars (the two agree wherever CanAccept holds).
FairSpec ==
    /\ Spec
    /\ WF_vars(BeginSession)
    /\ \/ []<>~(db.present /\ ~db.terminated)
       \/ []<><<AcceptedTurn>>_vars

----------------------------------------------------------------------------
(* _normalize_answer called on its own, on a multi_choice question *)

Other == <<"O", "t", "h", "e", "r">>

\* A piece of a comma-separated text: a word (possibly empty) with or without
\* a blank before and after it.
Pieces == [left : BOOLEAN, word : {Manager, Colleague, Other, SKIP, <<>>}, right : BOOLEAN]

PieceText(piece) ==
    (IF piece.left THEN <<" ">> ELSE <<>>) \o piece.word
        \o (IF piece.right THEN <<" ">> ELSE <<>>)

RECURSIVE Join(_)
\* the pieces with commas between them
Join(pieces) ==
    IF Len(pieces) = 1 THEN PieceText(pieces[1])
    ELSE PieceText(pieces[1]) \o <<",">> \o Join(Tail(pieces))

PieceSeqs == UNION {[1..n -> Pieces] : n \in 1..MaxTokens}

ListValues == UNION {[1..n -> {Manager, Colleague, Other}] : n \in 0..MaxTokens}

\* the values handed to _normalize_answer: texts, lists and None
NormalizeArgs ==
    {[parsed_value |-> PyStr(Join(ps)), pieces |-> ps] : ps \in PieceSeqs}
    \cup {[parsed_value |-> PyList(l), pieces |-> <<>>] : l \in ListValues}
    \cup {[parsed_value |-> PyNone, pieces |-> <<>>]}

NormalizeInit ==
    /\ survey_id \in SurveyIds
    /\ db = NoState
    /\ result = NoResult
    /\ asked_log = <<>>
    /\ stalls = 0
    /\ \E q \in SeqToSet(SURVEYS[survey_id].questions) : \E a \in NormalizeArgs :
          /\ q.type = "multi_choice"
          /\ arg = [called |-> TRUE, question |-> q,
                    parsed_value |-> a.parsed_value, pieces |-> a.pieces]
    /\ ret = NoCall

Normalize ==
    /\ arg.called
    /\ ~ret.called
    /\ ret' = [called |-> TRUE, value |-> _normalize_answer(arg.question, arg.parsed_value)]
    /\ UNCHANGED <<survey_id, db, result, asked_log, stalls, arg>>

NormalizeSpec == NormalizeInit /\ [][Normalize]_vars

----------------------------------------------------------------------------
(* _is_condition_met called on its own *)

\* values an answer can have been stored with: texts and lists of texts
StoredValues ==
    {PyStr(Yes), PyStr(No), PyStr(Manager), PyStr(SKIP),
     PyList(<<>>), PyList(<<Manager>>), PyList(<<Colleague>>),
     PyList(<<Colleague, Manager>>), PyList(<<No, Yes>>)}

\* answers under the keys of the set, each key with a stored value or absent
AnswersOver(keys) ==
    UNION {[present -> StoredValues] : present \in SUBSET keys}

\* the key the condition of the question reads ("q1" when it has none)
ConditionKey(question) ==
    IF question.condition.present THEN question.condition.var ELSE "q1"

ConditionInit ==
    /\ survey_id \in SurveyIds
    /\ db = NoState
    /\ result = NoResult
    /\ asked_log = <<>>
    /\ stalls = 0
    /\ \E q \in SeqToSet(SURVEYS[survey_id].questions) :
       \E answers \in AnswersOver({ConditionKey(q), "other"}) :
          arg = [called |-> TRUE, question |-> q, answers |-> answers]
    /\ ret = NoCall

\* the function reads its arguments and writes nothing
ConditionCall ==
    /\ arg.called
    /\ ~ret.called
    /\ ret' = [called |-> TRUE, value |-> _is_condition_met(arg.question, arg.answers)]
    /\ UNCHANGED <<survey_id, db, result, asked_log, stalls, arg>>

ConditionSpec == ConditionInit /\ [][ConditionCall]_vars

----------------------------------------------------------------------------
(* _deterministic_next_question called on its own *)

Statuses == {"unasked", "asked", "answered", "skipped"}

\* answers to call the policy with: none, and for each condition of the
\* definition the value it asks for, another text, and a list with the value
PolicyAnswers(survey_definition) ==
    {EmptyDict}
    \cup UNION {{[k \in {q.condition.var} |-> v] :
                   v \in {PyStr(q.condition.equals), PyStr(No),
                          PyList(<<q.condition.equals>>)}} :
                q \in {x \in SeqToSet(survey_definition.questions) : x.condition.present}}

\* session states to call the policy on: any statuses, any current question
PolicyStates(survey_definition) ==
    {[_initial_state(survey_definition) EXCEPT
         !.question_status = status, !.answers = answers, !.current_question_id = current] :
       status \in [SeqToSet(QuestionIds(survey_definition)) -> Statuses],
       answers \in PolicyAnswers(survey_definition),
       current \in {None} \cup SeqToSet(QuestionIds(survey_definition))}

PolicyInit ==
    /\ survey_id \in SurveyIds
    /\ db = NoState
    /\ result = NoResult
    /\ asked_log = <<>>
    /\ stalls = 0
    /\ \E state \in PolicyStates(SURVEYS[survey_id]) :
          arg = [called |-> TRUE, state |-> state]
    /\ ret = NoCall

Policy ==
    /\ arg.called
    /\ ~ret.called
    /\ ret' = [called |-> TRUE,
               value |-> _deterministic_next_question(arg.state, SURVEYS[survey_id])]
    /\ UNCHANGED <<survey_id, db, result, asked_log, stalls, arg>>

PolicySpec == PolicyInit /\ [][Policy]_vars

----------------------------------------------------------------------------
(* _mark_conditionally_skipped called on its own, then again on its result *)

\* session states to call it on: those of the policy, with an empty
\* transcript or one holding an assistant turn
MarkStates(survey_definition) ==
    PolicyStates(survey_definition)
    \cup {_append_history(state, "assistant", EndMessage, None) : state \in PolicyStates(survey_definition)}

MarkInit ==
    /\ survey_id \in SurveyIds
    /\ db = NoState
    /\ result = NoResult
    /\ asked_log = <<>>
    /\ stalls = 0
    /\ \E state \in MarkStates(SURVEYS[survey_id]) : arg = [called |-> TRUE, state |-> state]
    /\ ret = NoCall

MarkFirst ==
    /\ arg.called
    /\ ~ret.called
    /\ ret' = [called |-> TRUE, count |-> 1, before |-> arg.state,
               value |-> _mark_conditionally_skipped(arg.state, SURVEYS[survey_id])]
    /\ UNCHANGED <<survey_id, db, result, asked_log, stalls, arg>>

MarkAgain ==
    /\ ret.called
    /\ ret.count < MaxMarks
    /\ ret' = [called |-> TRUE, count |-> ret.count + 1, before |-> ret.value,
               value |-> _mark_conditionally_skipped(ret.value, SURVEYS[survey_id])]
    /\ UNCHANGED <<survey_id, db, result, asked_log, stalls, arg>>

MarkSpec == MarkInit /\ [][MarkFirst \/ MarkAgain]_vars

TypeOK ==
    /\ survey_id \in SurveyIds
    /\ db.present \in BOOLEAN
    /\ db.terminated \in BOOLEAN
    /\ stalls \in 0..MaxStalls
----------------------------------------------------------------------------
(* Vocabulary of the properties *)

Definition == SURVEYS[survey_id]
Questions == SeqToSet(Definition.questions)
Ids == {q.id : q \in Questions}
QuestionOf(id) == CHOOSE q \in Questions : q.id = id
Position(id) == IndexOf(Definition, id)
Resolved == {"answered", "skipped"}
Active == db.present /\ ~db.terminated

\* The eligible set once the current question of state is resolved and the
\* answers are answers: not answered, not skipped, condition met.
EligibleAfterStore(state, answers) ==
    {id \in Ids : /\ id # state.current_question_id
                  /\ state.question_status[id] \notin Resolved
                  /\ _is_condition_met(QuestionOf(id), answers)}

\* The first question of the set that comes after id in definition order.
FirstAfter(id, set) ==
    LET later == {i \in 1..Len(Definition.questions) :
                    i > Position(id) /\ Definition.questions[i].id \in set}
    IN IF later = {} THEN None
       ELSE Definition.questions[CHOOSE i \in later : \A j \in later : i <= j].id

\* A stored value that is acceptable for a question (spec 4.3): text for
\* free_text, a list of options for multi_choice, one option otherwise.
ValidFor(question, value) ==
    CASE question.type = "free_text" -> value.t = "str"
      [] question.type = "multi_choice" ->
            value.t = "list" /\ \A i \in 1..Len(value.l) : value.l[i] \in SeqToSet(question.options)
      [] OTHER -> value.t = "str" /\ value.s \in SeqToSet(question.options)

LastEntry == db.history[Len(db.history)]

----------------------------------------------------------------------------
(* C1 *)

\* C1: in every call of next_step that stores an answer and advances, the new
\* current question is the port's proposal if the proposal is in the eligible
\* set computed after the store, and the Progression Policy's candidate (the
\* first eligible question after the answered one) for every other proposal.
C1_ProposalHonouredOnlyIfEligible ==
    \A user_message \in UserMessages :
    \A on_topic \in Verdicts(db, Definition, user_message) :
    \A llm \in PortOutputs(db, Definition, user_message, on_topic) :
        LET o == next_step(db, Definition, user_message, on_topic, llm)
            eligible == EligibleAfterStore(db, o.db.answers)
            proposal == o.response.next_question_id
        IN o.result.via = "advanced" =>
             /\ SaveAs(QuestionOf(db.current_question_id)) \in DOMAIN o.db.answers
             /\ o.db.current_question_id =
                  IF proposal \in eligible THEN proposal
                  ELSE FirstAfter(db.current_question_id, eligible)

\* a proposal was honoured that is not the policy's candidate: the session is
\* on a question while an earlier one is still unasked
C1_Witness ==
    /\ Active
    /\ result.via = "advanced"
    /\ \E id \in Ids : /\ Position(id) < Position(db.current_question_id)
                       /\ db.question_status[id] = "unasked"

----------------------------------------------------------------------------
(* C2 *)

\* the transcript of db' is the transcript of db with entries added
TranscriptGrows ==
    /\ Len(db'.history) > Len(db.history)
    /\ SubSeq(db'.history, 1, Len(db.history)) = db.history

\* C2: a turn of an active session in which the port returned a truthy
\* need_clarification leaves the current question current and "asked", and
\* leaves answers, every status and the terminated flag as they were, whatever
\* value and next_question_id came with it; only the transcript grows.
C2_FlaggedTurnKeepsQuestion ==
    [][(Active /\ result'.flagged) =>
          /\ db'.current_question_id = db.current_question_id
          /\ db'.question_status[db.current_question_id] = "asked"
          /\ db'.question_status = db.question_status
          /\ db'.answers = db.answers
          /\ db'.terminated = db.terminated
          /\ TranscriptGrows]_vars

\* a flagged turn has been taken on a question whose value the normalizer accepted
C2_Witness ==
    /\ Active
    /\ result.via = "clarification"
    /\ result.flagged
    /\ result.valid
    /\ db.question_status[db.current_question_id] = "asked"

----------------------------------------------------------------------------
(* C3 *)

StoredAnswersValid ==
    \A k \in DOMAIN db.answers :
        \/ db.answers[k] = PyStr(SKIP)
        \/ \E q \in Questions : SaveAs(q) = k /\ ValidFor(q, db.answers[k])

\* C3: a turn whose parsed value the normalizer reported invalid is a
\* clarification turn, flagged by the port or not: it writes nothing to answers
\* and changes no status.  So every stored answer is SKIP or a value valid for
\* the type and options of a question stored under that key.
C3_InvalidAnswerNeverStored ==
    /\ []StoredAnswersValid
    /\ [][(result'.via \in {"clarification", "advanced", "terminated"} /\ ~result'.valid) =>
             /\ result'.via = "clarification"
             /\ db'.answers = db.answers
             /\ db'.question_status = db.question_status]_vars

\* the clarification was forced: the port did not flag the turn
C3_Witness ==
    /\ Active
    /\ result.via = "clarification"
    /\ ~result.flagged
    /\ ~result.valid
    /\ SaveAs(QuestionOf(db.current_question_id)) \notin DOMAIN db.answers

----------------------------------------------------------------------------
(* C4 *)

\* C4: a question whose status is "answered" or "skipped" keeps that status in
\* every later state, whatever the port proposes.
C4_ResolvedStatusIsFinal ==
    [][\A id \in DOMAIN db.question_status :
          db.question_status[id] \in Resolved =>
             db'.question_status[id] = db.question_status[id]]_vars

\* the session is on a question while a later one, asked before it, stays answered
C4_Witness ==
    /\ Active
    /\ \E id \in Ids : /\ Position(id) > Position(db.current_question_id)
                       /\ db.question_status[id] = "answered"

----------------------------------------------------------------------------
(* C5 *)

\* C5: in every persisted state, a current_question_id that is set names a
\* question whose status is "asked".
C5_CurrentQuestionIsAsked ==
    (db.present /\ db.current_question_id # None) =>
        db.question_status[db.current_question_id] = "asked"

----------------------------------------------------------------------------
(* C6 *)

\* C6: the ids that become "asked" do so in strictly increasing definition
\* order: no question is asked while one before it is unresolved, and the
\* session never goes back to an earlier question.
C6_AskedInDefinitionOrder ==
    /\ \A i, j \in 1..Len(asked_log) :
          i < j => Position(asked_log[i]) < Position(asked_log[j])
    /\ \A i \in 1..Len(asked_log) : \A id \in Ids :
          (Position(id) < Position(asked_log[i]) /\ db.question_status[id] \notin Resolved)
             => asked_log[i] = id

----------------------------------------------------------------------------
(* C7 *)

\* the answer stored under the key a condition reads is a text other than the
\* one the condition asks for
AnsweredOtherwise(question) ==
    /\ question.condition.present
    /\ question.condition.var \in DOMAIN db.answers
    /\ db.answers[question.condition.var].t = "str"
    /\ db.answers[question.condition.var].s # question.condition.equals

\* C7: once the question a condition reads is answered otherwise ("No" where
\* the condition wants "Yes"), the conditioned question is "skipped" without
\* ever having been asked or current, no call lists it as eligible and no
\* proposal of the port makes it current.
C7_UnmetConditionSkips ==
    \A q \in Questions :
        (db.present /\ AnsweredOtherwise(q)) =>
            /\ db.question_status[q.id] = "skipped"
            /\ q.id \notin SeqToSet(asked_log)
            /\ db.current_question_id # q.id
            /\ \A user_message \in UserMessages :
               \A on_topic \in Verdicts(db, Definition, user_message) :
               \A llm \in PortOutputs(db, Definition, user_message, on_topic) :
                   LET o == next_step(db, Definition, user_message, on_topic, llm)
                   IN /\ q.id \notin SeqToSet(o.allowed_questions)
                      /\ o.db.current_question_id # q.id
                      /\ o.db.question_status[q.id] = "skipped"

\* Q1 was answered "No" and the session moved on past the skipped Q2
C7_Witness ==
    /\ Active
    /\ survey_id = "CULTURE_DISCRIMINATION"
    /\ "q1" \in DOMAIN db.answers
    /\ db.answers["q1"] = PyStr(No)
    /\ db.question_status["Q2"] = "skipped"
    /\ result.via = "advanced"
    /\ Position(db.current_question_id) > Position("Q2")

----------------------------------------------------------------------------
(* C8 *)

\* C8: on a terminated session every call of next_step, with any message,
\* returns the end message, consults neither moderation nor the port, and
\* leaves the persisted state as it is; the transcript holds the one end
\* message appended at termination, as its last entry.
C8_TerminatedSessionReplays ==
    (db.present /\ db.terminated) =>
        /\ \A llm \in LLMOutputs(Definition) :
           \A user_message \in UserMessages :
           \A on_topic \in BOOLEAN :
               LET o == next_step(db, Definition, user_message, on_topic, llm)
               IN /\ o.result.returned
                  /\ o.result.message = EndMessage
                  /\ o.db = db
                  /\ o.moderation_calls = 0
                  /\ o.response = NoResponse
        /\ LastEntry.content = EndMessage
        /\ Cardinality({i \in 1..Len(db.history) : db.history[i].content = EndMessage}) = 1

\* the end message has been replayed to a session that ended after an answer
C8_Witness ==
    /\ db.present
    /\ db.terminated
    /\ result.via = "replay"
    /\ db.answers # EmptyDict

----------------------------------------------------------------------------
(* C9 *)

PortFailures ==
    {[outcome |-> "create_raises", content |-> NotADict],
     [outcome |-> "unparseable", content |-> NotADict]}

\* C9: when the port fails to produce an interpretation (the call fails or its
\* output does not parse), next_step returns a clarification prompt: the
\* current question stays current and "asked", no answer is stored and the
\* session is not terminated.
C9_PortFailureBecomesClarification ==
    \A user_message \in UserMessages :
    \A on_topic \in Verdicts(db, Definition, user_message) :
        ReachesPort(db, Definition, user_message, on_topic) =>
            \A llm \in PortFailures :
                LET o == next_step(db, Definition, user_message, on_topic, llm)
                IN /\ o.result.returned
                   /\ o.result.via = "clarification"
                   /\ o.result.message # NoText
                   /\ o.db.current_question_id = db.current_question_id
                   /\ o.db.question_status[db.current_question_id] = "asked"
                   /\ o.db.answers = db.answers
                   /\ ~o.db.terminated

----------------------------------------------------------------------------
(* C10 *)

\* C10: whatever value the port returns (a value that is no object, an object
\* with fields missing, a parsed_answer that is no object), next_step returns
\* a result with a message and does not end in an unhandled failure.
C10_EveryPortValueHandled ==
    \A user_message \in UserMessages :
    \A on_topic \in Verdicts(db, Definition, user_message) :
    \A llm \in PortOutputs(db, Definition, user_message, on_topic) :
        llm.outcome \in {"json", "unparseable"} =>
            LET o == next_step(db, Definition, user_message, on_topic, llm)
            IN /\ o.result.returned
               /\ o.result.message # NoText

----------------------------------------------------------------------------
(* C11 *)

\* C11: when moderation reports the message off-topic on an active session,
\* next_step leaves answers, every status, current_question_id and terminated
\* as they are, does not call the port, does not append the user message, and
\* appends and returns exactly one assistant reminder tied to the current
\* question.
C11_OffTopicTurnOnlyReminds ==
    Active =>
        \A user_message \in UserMessages :
            FALSE \in Verdicts(db, Definition, user_message) =>
                \A llm \in LLMOutputs(Definition) :
                    LET o == next_step(db, Definition, user_message, FALSE, llm)
                    IN /\ o.result.returned
                       /\ o.result.message = OffTopicMessage
                       /\ o.response = NoResponse
                       /\ o.moderation_calls = 1
                       /\ o.db = [db EXCEPT !.history =
                                    Append(@, [role |-> "assistant",
                                               content |-> OffTopicMessage,
                                               question_id |-> db.current_question_id])]

\* an off-topic turn was taken after an answer had been stored
C11_Witness ==
    /\ Active
    /\ result.via = "off_topic"
    /\ db.answers # EmptyDict
    /\ LastEntry = [role |-> "assistant", content |-> OffTopicMessage,
                    question_id |-> db.current_question_id]

----------------------------------------------------------------------------
(* C12 *)

\* the questions whose condition holds when nothing is answered yet
EligibleAtStart == {id \in Ids : _is_condition_met(QuestionOf(id), EmptyDict)}

Asked == {id \in DOMAIN db.question_status : db.question_status[id] = "asked"}

\* C12: begin_session leaves one of two states.  With no eligible question:
\* terminated, nothing asked, no current question, the end message as the only
\* transcript entry.  Otherwise: not terminated, the first eligible question in
\* definition order current and the only one asked, no answers, and one
\* assistant entry tied to that question.  next_step on a session with no
\* persisted state does what begin_session does.
C12_BeginSessionOutcome ==
    /\ ~db.present =>
          \A user_message \in UserMessages : \A on_topic \in BOOLEAN :
          \A llm \in LLMOutputs(Definition) :
              next_step(db, Definition, user_message, on_topic, llm)
                  = begin_session(Definition)
    /\ (db.present /\ result.via \in {"begin", "begin_terminated"}) =>
          LET first == FirstAfter(None, EligibleAtStart)
          IN IF first = None
             THEN /\ db.terminated
                  /\ Asked = {}
                  /\ db.current_question_id = None
                  /\ db.history = <<[role |-> "assistant", content |-> EndMessage,
                                     question_id |-> None]>>
                  /\ result.message = EndMessage
             ELSE /\ ~db.terminated
                  /\ db.current_question_id = first
                  /\ Asked = {first}
                  /\ db.answers = EmptyDict
                  /\ db.history = <<[role |-> "assistant",
                                     content |-> _render_intro_and_question(first),
                                     question_id |-> first]>>
                  /\ result.message = _render_intro_and_question(first)

\* a session began on a question that is not the first of its definition
C12_Witness ==
    /\ db.present
    /\ result.via = "begin"
    /\ Position(db.current_question_id) > 1

----------------------------------------------------------------------------
(* C13 *)

\* port outputs that carry the SKIP sentinel and do not flag a clarification
SkipOutputs ==
    {[outcome |-> "json",
      content |-> Response("dict", "dict", PyStr(SKIP), FALSE, txt[1], nq, txt[2])] :
        txt \in ModelTexts, nq \in Proposals(Definition)}

\* C13: whatever the type of the current question, when the port's value is
\* SKIP and no clarification is flagged, the normalizer returns (SKIP, valid,
\* no clarification) and next_step marks the question "skipped", stores SKIP
\* under its storage key, and moves to another question or terminates.
C13_SkipSentinelSkipsQuestion ==
    Active =>
        \A user_message \in UserMessages :
        \A on_topic \in Verdicts(db, Definition, user_message) :
            ReachesPort(db, Definition, user_message, on_topic) =>
                \A llm \in SkipOutputs :
                    LET question == QuestionOf(db.current_question_id)
                        o == next_step(db, Definition, user_message, on_topic, llm)
                    IN /\ _normalize_answer(question, PyStr(SKIP))
                             = [value |-> PyStr(SKIP), valid |-> TRUE,
                                needs_clarification |-> FALSE]
                       /\ o.result.via \in {"advanced", "terminated"}
                       /\ o.db.question_status[question.id] = "skipped"
                       /\ SaveAs(question) \in DOMAIN o.db.answers
                       /\ o.db.answers[SaveAs(question)] = PyStr(SKIP)
                       /\ \/ o.db.terminated
                          \/ /\ o.db.current_question_id # question.id
                             /\ o.db.question_status[o.db.current_question_id] = "asked"

\* a multi_choice question was skipped by the sentinel and the session moved on
C13_Witness ==
    /\ Active
    /\ result.via = "advanced"
    /\ \E q \in Questions :
          /\ q.type = "multi_choice"
          /\ q.id \in SeqToSet(asked_log)
          /\ db.question_status[q.id] = "skipped"
          /\ SaveAs(q) \in DOMAIN db.answers
          /\ db.answers[SaveAs(q)] = PyStr(SKIP)

----------------------------------------------------------------------------
(* C14 *)

\* what a call decides about the flow: everything it leaves behind but the
\* texts (the transcript and the message), and the ids it marked "asked"
Flow(o) ==
    [present |-> o.db.present,
     answers |-> o.db.answers,
     question_status |-> o.db.question_status,
     current_question_id |-> o.db.current_question_id,
     terminated |-> o.db.terminated,
     asked |-> o.asked,
     returned |-> o.result.returned]

\* the state with its transcript taken away
WithoutTranscript(state) == [state EXCEPT !.history = <<>>]

\* the port output with its phrasing and clarification texts taken away
WithoutTexts(llm) ==
    [llm EXCEPT !.content.clarification_question = NoText,
                !.content.assistant_question_text = NoText]

\* the flow part of every call is what the same call gives without the port's
\* texts on the state without its transcript
FlowIgnoresTexts ==
    \A user_message \in UserMessages :
    \A on_topic \in Verdicts(db, Definition, user_message) :
    \A llm \in PortOutputs(db, Definition, user_message, on_topic) :
        Flow(next_step(db, Definition, user_message, on_topic, llm))
          = Flow(next_step(WithoutTranscript(db), Definition, user_message, on_topic,
                           WithoutTexts(llm)))

\* C14: the ids that become "asked" do not depend on the phrasing and
\* clarification texts of the port.  In every reachable state the flow part
\* of every call is independent of those texts and of the transcript; so two
\* runs over the same definition with the same answers, flags and proposals
\* go through the same flow states and ask the same questions in the same
\* order.
C14_AskedSequenceIgnoresTexts == []FlowIgnoresTexts

\* the session advanced twice, once with the port's phrasing and once with
\* the definition's text
C14_Witness ==
    /\ Active
    /\ Len(asked_log) >= 3
    /\ result.via = "advanced"
    /\ \E i, j \in 1..Len(db.history) :
          /\ db.history[i].role = "assistant" /\ db.history[i].content = ModelText
          /\ db.history[j].role = "assistant"
          /\ db.history[j].content = QuestionText(db.history[j].question_id)

----------------------------------------------------------------------------
(* C15 *)

\* the words of the pieces a text was made of, the empty ones left out
WordsOf(pieces) ==
    SelectSeq([i \in 1..Len(pieces) |-> pieces[i].word], LAMBDA w : w # <<>>)

\* what the claim expects of a multi_choice value: the list of trimmed
\* non-empty tokens of a text, a list as it is, valid if and only if all its
\* elements are options; the empty list, invalid, in every other case
ExpectedMultiChoice ==
    LET options == SeqToSet(arg.question.options)
        isList == arg.parsed_value.t \in {"str", "list"}
        list == IF arg.parsed_value.t = "str" THEN WordsOf(arg.pieces)
                ELSE IF arg.parsed_value.t = "list" THEN arg.parsed_value.l
                ELSE <<>>
    IN IF isList /\ \A i \in 1..Len(list) : list[i] \in options
       THEN [value |-> PyList(list), valid |-> TRUE, needs_clarification |-> FALSE]
       ELSE [value |-> PyList(<<>>), valid |-> FALSE, needs_clarification |-> TRUE]

\* C15 as stated: for a multi_choice question, _normalize_answer returns the
\* list of trimmed non-empty tokens (or the list given), valid, exactly when
\* every element is an option, and (empty list, invalid, needs clarification)
\* in every other case.
C15_MultiChoiceAsStated ==
    ret.called => ret.value = ExpectedMultiChoice

\* C15, amended: the same for every value but the text "SKIP", to which the
\* sentinel rule applies before the type is looked at; "Manager, Colleague"
\* gives [Manager, Colleague].
C15_MultiChoiceExceptSentinel ==
    /\ (ret.called /\ arg.parsed_value # PyStr(SKIP)) => ret.value = ExpectedMultiChoice
    /\ (ret.called /\ arg.parsed_value = PyStr(ManagerCommaColleague)) =>
           ret.value = [value |-> PyList(<<Manager, Colleague>>), valid |-> TRUE,
                        needs_clarification |-> FALSE]

\* a text with blanks around its tokens and an empty token was accepted
C15_Witness ==
    /\ ret.called
    /\ arg.parsed_value = PyStr(<<" ">> \o Manager \o <<" ", ",">>)
    /\ ret.value.valid
    /\ ret.value.value = PyList(<<Manager>>)

----------------------------------------------------------------------------
(* C16 *)

\* the answer stored under the key the condition reads is the value asked
\* for, or a list that contains it
AnsweredAsRequired(question) ==
    /\ question.condition.present
    /\ question.condition.var \in DOMAIN db.answers
    /\ LET stored == db.answers[question.condition.var]
       IN \/ stored = PyStr(question.condition.equals)
          \/ stored.t = "list" /\ question.condition.equals \in SeqToSet(stored.l)

\* C16: once the question a condition reads is answered with the required
\* value, the conditioned question is eligible until it is asked: it is not
\* "skipped" without having been asked, and the session does not terminate
\* before asking it.
C16_MetConditionGetsAsked ==
    \A q \in Questions :
        (db.present /\ AnsweredAsRequired(q)) =>
            \/ q.id \in SeqToSet(asked_log)
            \/ db.question_status[q.id] = "unasked" /\ ~db.terminated

----------------------------------------------------------------------------
(* C17 *)

\* C17: in every terminated state every question is "answered" or "skipped".
C17_TerminatedMeansAllResolved ==
    (db.present /\ db.terminated) =>
        \A id \in DOMAIN db.question_status : db.question_status[id] \in Resolved

----------------------------------------------------------------------------
(* C18 *)

\* positions strictly after the current question (all, when there is none)
PolicyRange == {i \in 1..Len(Definition.questions) : i > Position(arg.state.current_question_id)}

\* the question at position i is unresolved and its condition is met
PolicyEligible(i) ==
    LET q == Definition.questions[i]
    IN /\ arg.state.question_status[q.id] \notin Resolved
       /\ _is_condition_met(q, arg.state.answers)

\* positions of the range the scan passes before it returns
PolicyPassed ==
    {i \in PolicyRange : \A j \in PolicyRange : PolicyEligible(j) => i < j}

\* C18: _deterministic_next_question returns the first question strictly
\* after the current one (of all questions when there is no current one) that
\* is neither "answered" nor "skipped" and whose condition is met, or None when
\* there is none, never the current question or one before it.  It marks
\* "skipped" each unresolved question it passes whose condition is not met, and
\* changes nothing else but the status of "unasked" questions whose condition
\* is not met, which the skip marking it runs first sets to "skipped".
C18_PolicyReturnsFirstEligibleAfterCurrent ==
    ret.called =>
        LET before == arg.state
            after == ret.value.state
            firsts == {i \in PolicyRange : PolicyEligible(i) /\ i \notin PolicyPassed
                                           /\ \A j \in PolicyRange : PolicyEligible(j) => i <= j}
        IN /\ IF firsts = {} THEN ret.value.id = None
              ELSE \E i \in firsts : ret.value.id = Definition.questions[i].id
           /\ ret.value.id # None =>
                 Position(ret.value.id) > Position(before.current_question_id)
           /\ \A i \in PolicyPassed :
                 LET q == Definition.questions[i]
                 IN (before.question_status[q.id] \notin Resolved
                       /\ ~_is_condition_met(q, before.answers))
                    => after.question_status[q.id] = "skipped"
           /\ \A q \in Questions :
                 \/ after.question_status[q.id] = before.question_status[q.id]
                 \/ /\ after.question_status[q.id] = "skipped"
                    /\ ~_is_condition_met(q, before.answers)
                    /\ \/ before.question_status[q.id] = "unasked"
                       \/ /\ before.question_status[q.id] = "asked"
                          /\ Position(q.id) \in PolicyPassed
           /\ [after EXCEPT !.question_status = before.question_status] = before

\* the policy passed an asked question whose condition is not met, marked it
\* and returned a later question
C18_Witness ==
    /\ ret.called
    /\ arg.state.current_question_id # None
    /\ ret.value.id # None
    /\ \E i \in PolicyPassed :
          /\ arg.state.question_status[Definition.questions[i].id] = "asked"
          /\ ret.value.state.question_status[Definition.questions[i].id] = "skipped"

----------------------------------------------------------------------------
(* C19 *)

\* C19: in every call that advances, the message returned is a phrasing of
\* the question recorded as current: its definition text, or the port's
\* assistant_question_text when the port did not propose another question.
\* The phrasing the port wrote for a proposal that was rejected is not used.
C19_MessagePhrasesCurrentQuestion ==
    \A user_message \in UserMessages :
    \A on_topic \in Verdicts(db, Definition, user_message) :
    \A llm \in PortOutputs(db, Definition, user_message, on_topic) :
        LET o == next_step(db, Definition, user_message, on_topic, llm)
        IN o.result.via = "advanced" =>
             \/ o.result.message = QuestionText(o.db.current_question_id)
             \/ /\ o.response.next_question_id \in {None, o.db.current_question_id}
                /\ o.result.message = o.response.assistant_question_text

----------------------------------------------------------------------------
(* C20 *)

\* the questions that were asked and are resolved: one per accepted turn
AcceptedTurns ==
    Cardinality({id \in SeqToSet(asked_log) : db.question_status[id] \in Resolved})

\* C20: a turn of an active session that is neither off-topic nor a
\* clarification moves exactly the current question from "asked" to
\* "answered" or "skipped", so it adds one to the number of resolved asked
\* questions; that number reaches the number of questions only in a
\* terminated session; and when an accepted answer is eventually given to each
\* asked question, the session eventually terminates.
C20_AcceptedTurnsResolveAndTerminate ==
    /\ [][(Active /\ result'.via \in {"advanced", "terminated"}) =>
             /\ {id \in DOMAIN db.question_status :
                    /\ db.question_status[id] = "asked"
                    /\ db'.question_status[id] \in Resolved}
                  = {db.current_question_id}
             /\ \A id \in DOMAIN db.question_status :
                    db.question_status[id] # "asked" =>
                        \/ db'.question_status[id] = db.question_status[id]
                        \/ /\ id = db'.current_question_id
                           /\ db.question_status[id] = "unasked"
                           /\ db'.question_status[id] = "asked"
             /\ AcceptedTurns' = AcceptedTurns + 1]_vars
    /\ [](db.present =>
             /\ AcceptedTurns <= Len(Definition.questions)
             /\ AcceptedTurns = Len(Definition.questions) => db.terminated)
    /\ [](Active => CanAccept)
    /\ <>(db.present /\ db.terminated)

\* a session terminated after every one of its questions was asked and resolved
C20_Witness ==
    /\ db.present
    /\ db.terminated
    /\ result.via = "terminated"
    /\ Len(Definition.questions) > 1
    /\ \A id \in Ids : id \in SeqToSet(asked_log) \/ db.question_status[id] = "skipped"
    /\ \E id \in Ids : db.question_status[id] = "answered"

----------------------------------------------------------------------------
(* C21 *)

\* what the claim expects of the evaluator: true without a condition; with a
\* condition, true exactly when the key has a stored value that is the target
\* or is a list with the target among its elements
ExpectedConditionMet ==
    LET condition == arg.question.condition
    IN IF ~condition.present THEN TRUE
       ELSE /\ condition.var \in DOMAIN arg.answers
            /\ LET stored == arg.answers[condition.var]
               IN \/ stored = PyStr(condition.equals)
                  \/ /\ stored.t = "list"
                     /\ \E i \in 1..Len(stored.l) : stored.l[i] = condition.equals

\* C21: _is_condition_met returns true for a question without condition; for
\* a condition {var, equals} it returns true exactly when answers holds a value
\* for var that equals the target or is a list containing it, so false when
\* var has no stored answer; and it changes none of its arguments.
C21_ConditionEvaluator ==
    /\ [](ret.called => ret.value = ExpectedConditionMet)
    /\ [][arg' = arg]_vars

\* a condition was found met by a stored list of two elements
C21_Witness ==
    /\ ret.called
    /\ ret.value
    /\ arg.question.condition.present
    /\ arg.question.condition.var \in DOMAIN arg.answers
    /\ arg.answers[arg.question.condition.var].t = "list"
    /\ Len(arg.answers[arg.question.condition.var].l) = 2

----------------------------------------------------------------------------
(* C22 *)

\* the status the claim allows question id to have after one application
MarkedStatus(state, id) ==
    IF state.question_status[id] = "unasked"
       /\ ~_is_condition_met(_get_question_map(SURVEYS[survey_id])[id], state.answers)
    THEN "skipped"
    ELSE state.question_status[id]

\* C22: _mark_conditionally_skipped changes a status only from unasked to
\* skipped and only for questions whose condition is not met; answers, the
\* current question, the transcript and every asked, answered or skipped
\* status stay as they were; applying it to its own result changes nothing.
C22_MarkTouchesOnlyUnaskedAndIsIdempotent ==
    ret.called =>
       /\ DOMAIN ret.value.question_status = DOMAIN ret.before.question_status
       /\ \A id \in DOMAIN ret.before.question_status :
             ret.value.question_status[id] = MarkedStatus(ret.before, id)
       /\ ret.value = [ret.before EXCEPT !.question_status = ret.value.question_status]
       /\ ret.count >= 2 => ret.value = ret.before

\* on a state with a transcript, the first application skipped an unasked
\* question whose condition reads a stored answer, and left an asked and an unasked question alone; the
\* second application has run
C22_Witness ==
    /\ ret.called
    /\ ret.count = 2
    /\ arg.state.answers # EmptyDict
    /\ arg.state.history # <<>>
    /\ \E id \in DOMAIN arg.state.question_status :
          /\ arg.state.question_status[id] = "unasked"
          /\ ret.value.question_status[id] = "skipped"
    /\ \E id \in DOMAIN arg.state.question_status :
          /\ arg.state.question_status[id] = "asked"
          /\ ret.value.question_status[id] = "asked"
    /\ \E id \in DOMAIN arg.state.question_status :
          ret.value.question_status[id] = "unasked"

====
